---- MODULE Spec2Model ----
(***************************************************************************)
(* A model of pysheetmusic's MusicXML parser (src/pysheetmusic/parse.py):  *)
(* MusicXMLParser.parse walks the measures of the first part in document   *)
(* order, lays each one out (handle_print), dispatches its children to the *)
(* attributes / note / forward / backup / barline handlers and finalizes   *)
(* it.  The document is generated element by element: every action draws   *)
(* the element it handles from a small set of nodes.                       *)
(*                                                                         *)
(* The aggregates of sheet.py (Sheet, Page, Measure, Beam, Margins) are    *)
(* not part of the sources at hand; they are modelled from the             *)
(* specification's data model (section 3) and named so below.              *)
(***************************************************************************)
EXTENDS Integers, Sequences, FiniteSets, TLC

VARIABLES
    pc,        \* position of parse: "start", "loaded", "init", "loop",
               \* "children", "returned", "fault"
    pages,     \* context.sheet's pages, each with its geometry and measures
    measures,  \* the chain of Measure objects, in creation order
    beams,     \* context.beams: beam number -> Beam object (or None)
    heap,      \* the Beam objects created so far: heap[b] is beam b's stems
    finished,  \* whether sheet.finish() has run
    events,    \* history: the beam events handled so far, in document order
    last,      \* history: the element handled by the last step (the file
               \* parse was called with, before the first step)
    xmlDoc     \* the tree _read_musicxml returned; None before it did, and
               \* for a document whose elements are drawn as parse walks it

vars == <<pc, pages, measures, beams, heap, finished, events, last, xmlDoc>>

----------------------------------------------------------------------------
(* Bounds of the model. *)

\* measures in the part
MaxMeasures == 2
\* child elements dispatched in the whole part
MaxChildren == 4
\* the same, in the documents of beamed notes
MaxBeamChildren == 5
\* beam numbers 1..MaxNumber
MaxNumber == 2
\* entries of a container
MaxEntries == 2

----------------------------------------------------------------------------
(* Python values. *)

\* None, and an optional value that is present
None == {}
Some(v) == {v}
Get(o) == CHOOSE v \in o : TRUE

\* attribute strings, as sequences of characters
Yes == <<"y", "e", "s">>
No == <<"n", "o">>
YES == <<"Y", "E", "S">>

\* the cased letters of the attribute strings: A to Z and a to z
UpperLetters ==
    <<"A", "B", "C", "D", "E", "F", "G", "H", "I", "J", "K", "L", "M",
      "N", "O", "P", "Q", "R", "S", "T", "U", "V", "W", "X", "Y", "Z">>
LowerLetters ==
    <<"a", "b", "c", "d", "e", "f", "g", "h", "i", "j", "k", "l", "m",
      "n", "o", "p", "q", "r", "s", "t", "u", "v", "w", "x", "y", "z">>

\* str.lower() of one character
LowerChar(c) ==
    IF \E i \in DOMAIN UpperLetters : UpperLetters[i] = c
    THEN LowerLetters[CHOOSE i \in DOMAIN UpperLetters : UpperLetters[i] = c]
    ELSE c

\* str.lower()
Lower(s) == [i \in DOMAIN s |-> LowerChar(s[i])]

\* node.attrib.get(name, default)
AttribGet(attr, default) == IF attr = None THEN default ELSE Get(attr)

\* lxml's truth value of an element: whether it has child elements
ElementTruth(e) == e # None /\ Get(e).children > 0

----------------------------------------------------------------------------
(* Exact rationals (fractions.Fraction): <<numerator, denominator>>,      *)
(* denominator > 0, in lowest terms.                                       *)

Abs(i) == IF i < 0 THEN -i ELSE i

RECURSIVE GCD(_, _)
GCD(a, b) == IF b = 0 THEN a ELSE GCD(b, a % b)

\* Fraction(n, d), d # 0
Fraction(n, d) ==
    LET g == GCD(Abs(n), Abs(d))
        s == IF d < 0 THEN -1 ELSE 1
    IN  <<(s * n) \div g, (s * d) \div g>>

\* f / k for an integer k # 0
FracDivInt(f, k) == Fraction(f[1], f[2] * k)

FracNeg(f) == <<-f[1], f[2]>>

FracAdd(f, g) == Fraction(f[1] * g[2] + g[1] * f[2], f[2] * g[2])

Zero == <<0, 1>>

----------------------------------------------------------------------------
(* The aggregates of sheet.py, from the specification's data model. *)

\* S.Margins(node): the margins read from the element, zero when it is absent
Margins(node) == IF node = None THEN [left |-> 0, top |-> 0] ELSE Get(node)

\* sheet.new_page(): a page with the sheet's size and margins and no measure
NewPage == [size |-> <<60, 100>>, margins |-> [left |-> 5, top |-> 10],
            measures |-> <<>>]

\* S.Measure(node), linked by page.add_measure to its predecessor, whose
\* time-division unit it inherits
NewMeasure(node, prevM, pageIx) ==
    [x |-> 0, y |-> 0, isNewSystem |-> FALSE,
     height |-> node.height,
     staffSpacing |-> None,
     timeDivisions |-> IF prevM = None THEN None ELSE Get(prevM).timeDivisions,
     time |-> Zero,
     clef |-> IF prevM = None THEN None ELSE Get(prevM).clef,
     notes |-> <<>>,
     beams |-> <<>>,
     page |-> pageIx,
     finished |-> FALSE,
     dispatched |-> 0,      \* history: children dispatched so far
     placed |-> <<>>]       \* history: the layouts applied to the measure

\* measure.prev
Prev(ms, i) == IF i = 1 THEN None ELSE Some(ms[i - 1])

\* the outcome of a handler: the measure it leaves, and whether it raised
Ok(m) == [fault |-> FALSE, measure |-> m]
Raise(m) == [fault |-> TRUE, measure |-> m]

\* measure.follow_prev_layout(): the predecessor's position, verbatim
follow_prev_layout(m, prevM) ==
    IF prevM = None THEN Raise(m)
    ELSE Ok([m EXCEPT !.x = Get(prevM).x, !.y = Get(prevM).y])

----------------------------------------------------------------------------
(* handle_print *)

\* a bug: the attribute is compared as written
new_page_case_sensitive(prevM, node) ==
    prevM = None \/ AttribGet(node.newPage, No) = Yes

\* newPage: measure.prev is None, or new-page is "yes" in any case
new_page(prevM, node) ==
    prevM = None \/ Lower(AttribGet(node.newPage, No)) = Yes

\* newSystem: measure.prev is None, or new-system is "yes" in any case
new_system(prevM, node) ==
    prevM = None \/ Lower(AttribGet(node.newSystem, No)) = Yes

\* a bug: a missing top-system-distance counts as zero
place_new_page_lenient(m, page, node, systemMargins) ==
    LET m1 == [m EXCEPT !.isNewSystem = TRUE, !.placed = Append(@, "NEW_PAGE")]
        tsd == IF node.topSystemDistance = None THEN 0
               ELSE Get(node.topSystemDistance)
    IN  Ok([m1 EXCEPT
               !.y = page.size[2] - page.margins.top - tsd - m1.height,
               !.x = systemMargins.left + page.margins.left])

\* the branch "if newPage"
place_new_page(m, page, node, systemMargins) ==
    LET m1 == [m EXCEPT !.isNewSystem = TRUE, !.placed = Append(@, "NEW_PAGE")]
    IN  IF node.topSystemDistance = None THEN Raise(m1)
        ELSE Ok([m1 EXCEPT
                   !.y = page.size[2] - page.margins.top
                         - Get(node.topSystemDistance) - m1.height,
                   !.x = systemMargins.left + page.margins.left])

\* a bug: the predecessor's height is subtracted
place_new_system_prev_height(m, prevM, page, node, systemMargins) ==
    LET m1 == [m EXCEPT !.isNewSystem = TRUE,
                        !.x = systemMargins.left + page.margins.left,
                        !.placed = Append(@, "NEW_SYSTEM")]
    IN  IF node.systemDistance = None THEN Raise(m1)
        ELSE Ok([m1 EXCEPT
                   !.y = Get(prevM).y - Get(node.systemDistance)
                         - Get(prevM).height])

\* the branch "elif newSystem"; page is measure.page
place_new_system(m, prevM, page, node, systemMargins) ==
    LET m1 == [m EXCEPT !.isNewSystem = TRUE,
                        !.x = systemMargins.left + page.margins.left,
                        !.placed = Append(@, "NEW_SYSTEM")]
    IN  IF node.systemDistance = None THEN Raise(m1)
        ELSE Ok([m1 EXCEPT
                   !.y = Get(prevM).y - Get(node.systemDistance) - m1.height])

\* the branch "else"
place_continue(m, prevM, node) ==
    LET r == follow_prev_layout(m, prevM)
        m1 == [r.measure EXCEPT !.placed = Append(@, "CONTINUE")]
        measureDistance == node.measureDistance
    IN  IF r.fault THEN Raise(m1)
        ELSE IF ElementTruth(measureDistance)
        THEN Ok([m1 EXCEPT !.x = @ + Get(measureDistance).text])
        ELSE Ok(m1)

handle_print(measure, prevM, page, node) ==
    LET m0 == IF node.staffSpacing # None
              THEN [measure EXCEPT !.staffSpacing = node.staffSpacing]
              ELSE measure
        newSystem == new_system(prevM, node)
        newPage == new_page(prevM, node)
        systemMargins == Margins(node.systemMargins)
    IN  IF newPage THEN place_new_page(m0, page, node, systemMargins)
        ELSE IF newSystem
        THEN place_new_system(m0, prevM, page, node, systemMargins)
        ELSE place_continue(m0, prevM, node)

----------------------------------------------------------------------------
(* handle_attributes *)

\* measure.set_clef(clef)
set_clef(m, clef) == [m EXCEPT !.clef = Some(clef)]

handle_attributes(measure, node) ==
    LET m1 == IF node.divisions # None
              THEN [measure EXCEPT !.timeDivisions = node.divisions]
              ELSE measure
    IN  IF node.clef # None THEN Ok(set_clef(m1, Get(node.clef))) ELSE Ok(m1)

----------------------------------------------------------------------------
(* Durations, handle_forward and handle_backup *)

\* a bug: a measure without time-division unit counts in quarters
duration_in_quarters(measure, node) ==
    IF node.duration = None THEN None
    ELSE IF measure.timeDivisions = None
    THEN Some(FracDivInt(Fraction(Get(node.duration), 1), 4))
    ELSE IF Get(measure.timeDivisions) = 0 THEN None
    ELSE Some(FracDivInt(
                 FracDivInt(Fraction(Get(node.duration), 1),
                            Get(measure.timeDivisions)), 4))

\* Fraction(node.find('duration').text) / measure.timeDivisions / 4: None
\* when the expression raises (no duration element, no time-division unit,
\* a time-division unit of zero)
duration(measure, node) ==
    IF node.duration = None \/ measure.timeDivisions = None THEN None
    ELSE IF Get(measure.timeDivisions) = 0 THEN None
    ELSE Some(FracDivInt(
                 FracDivInt(Fraction(Get(node.duration), 1),
                            Get(measure.timeDivisions)), 4))

\* measure.change_time(delta): the time cursor moves by delta
change_time(m, delta) == [m EXCEPT !.time = FracAdd(@, delta)]

\* the delta handle_forward passes to change_time
forward_delta(measure, node) == duration(measure, node)

\* a bug: the sign is lost
backup_delta_unsigned(measure, node) ==
    IF node.duration = None \/ measure.timeDivisions = None THEN None
    ELSE IF Get(measure.timeDivisions) = 0 THEN None
    ELSE Some(FracDivInt(
                 FracDivInt(Fraction(Get(node.duration), 1),
                            Get(measure.timeDivisions)), 4))

\* the delta handle_backup passes to change_time:
\* -Fraction(node.find('duration').text) / measure.timeDivisions / 4
backup_delta(measure, node) ==
    IF node.duration = None \/ measure.timeDivisions = None THEN None
    ELSE IF Get(measure.timeDivisions) = 0 THEN None
    ELSE Some(FracDivInt(
                 FracDivInt(FracNeg(Fraction(Get(node.duration), 1)),
                            Get(measure.timeDivisions)), 4))

handle_forward(measure, node) ==
    LET d == forward_delta(measure, node)
    IN  IF d = None THEN Raise(measure) ELSE Ok(change_time(measure, Get(d)))

handle_backup(measure, node) ==
    LET d == backup_delta(measure, node)
    IN  IF d = None THEN Raise(measure) ELSE Ok(change_time(measure, Get(d)))

\* handle_barline
handle_barline(measure, node) == Ok(measure)

----------------------------------------------------------------------------
(* handle_note *)

\* the outcome of the beam branch of handle_note
BeamOk(m, bs, hp) == [fault |-> FALSE, measure |-> m, beams |-> bs, heap |-> hp]
BeamRaise(m, bs, hp) == [fault |-> TRUE, measure |-> m, beams |-> bs, heap |-> hp]

\* measure.add_beam(beam)
add_beam(m, b) == [m EXCEPT !.beams = Append(@, b)]

\* measure.add_note(note, isChord)
add_note(m, note, isChord) ==
    [m EXCEPT !.notes = Append(@, [note EXCEPT !.chord = isChord])]

\* beamType == 'begin': a new Beam replaces the number's entry, and takes
\* the stem
beam_begin(m, bs, hp, number, stem) ==
    LET b == Len(hp) + 1
    IN  BeamOk(m, [bs EXCEPT ![number] = Some(b)], Append(hp, <<stem>>))

\* a bug: a number without beam gets a new one
beam_continue_or_create(m, bs, hp, number, stem) ==
    IF bs[number] = None
    THEN BeamOk(m, [bs EXCEPT ![number] = Some(Len(hp) + 1)],
                Append(hp, <<stem>>))
    ELSE BeamOk(m, bs, [hp EXCEPT ![Get(bs[number])] = Append(@, stem)])

\* beamType == 'continue': the number's beam takes the stem
beam_continue(m, bs, hp, number, stem) ==
    IF bs[number] = None THEN BeamRaise(m, bs, hp)
    ELSE BeamOk(m, bs, [hp EXCEPT ![Get(bs[number])] = Append(@, stem)])

\* a bug: the last stem is left out
beam_end_without_stem(m, bs, hp, number, stem) ==
    IF bs[number] = None THEN BeamRaise(m, bs, hp)
    ELSE BeamOk(add_beam(m, Get(bs[number])), bs, hp)

\* beamType == 'end': the number's beam is added to the measure, and takes
\* the stem
beam_end(m, bs, hp, number, stem) ==
    IF bs[number] = None THEN BeamRaise(m, bs, hp)
    ELSE LET b == Get(bs[number])
         IN  BeamOk(add_beam(m, b), bs, [hp EXCEPT ![b] = Append(@, stem)])

\* the body of "if stem and beamNode is not None"
resolve_beam(m, bs, hp, beamNode, stem) ==
    IF beamNode.number = None THEN BeamRaise(m, bs, hp)
    ELSE LET number == Get(beamNode.number)
             beamType == beamNode.text
         IN  IF beamType = "begin" THEN beam_begin(m, bs, hp, number, stem)
             ELSE IF beamType = "continue"
             THEN beam_continue(m, bs, hp, number, stem)
             ELSE IF beamType = "end" THEN beam_end(m, bs, hp, number, stem)
             ELSE BeamRaise(m, bs, hp)   \* beam is unbound at beam.stems

\* a bug: a chord note's stem is recorded too
note_stem_of_chord(node, stemId) ==
    IF node.stem THEN Some(stemId) ELSE None

\* the stem handle_note records for the node, an object of its own
note_stem(node, stemId) ==
    IF ~node.chord /\ node.stem THEN Some(stemId) ELSE None

\* a bug: cue notes are handled as notes
skipped_grace_only(node) == node.grace

\* the notes handle_note passes over: those with a grace or a cue child
skipped(node) == node.grace \/ node.cue

handle_note(measure, bs, hp, node, stemId) ==
    IF skipped(node) THEN BeamOk(measure, bs, hp)
    ELSE
        LET isChord == node.chord
            d == duration(measure, node)
        IN  IF node.pitch THEN
                LET stem == note_stem(node, stemId)
                IN  IF d = None THEN BeamRaise(measure, bs, hp)
                    ELSE
                    LET note == [kind |-> "pitched", duration |-> Get(d),
                                 stem |-> stem, chord |-> FALSE]
                        r == IF stem # None /\ node.beam # None
                             THEN resolve_beam(measure, bs, hp,
                                               Get(node.beam), Get(stem))
                             ELSE BeamOk(measure, bs, hp)
                    IN  IF r.fault THEN r
                        ELSE BeamOk(add_note(r.measure, note, isChord),
                                    r.beams, r.heap)
            ELSE IF node.rest THEN
                IF d = None THEN BeamRaise(measure, bs, hp)
                ELSE BeamOk(add_note(measure,
                                [kind |-> "rest", duration |-> Get(d),
                                 stem |-> None, chord |-> FALSE], isChord),
                            bs, hp)
            ELSE BeamOk(measure, bs, hp)

----------------------------------------------------------------------------
(* _read_musicxml *)

\* name.startswith(prefix), name.endswith(suffix)
startswith(name, prefix) ==
    /\ Len(name) >= Len(prefix)
    /\ SubSeq(name, 1, Len(prefix)) = prefix
endswith(name, suffix) ==
    /\ Len(name) >= Len(suffix)
    /\ SubSeq(name, Len(name) - Len(suffix) + 1, Len(name)) = suffix

MetaInf == <<"M", "E", "T", "A", "-", "I", "N", "F", "/">>
DotXml == <<".", "x", "m", "l">>

\* zfile.namelist(): the names of the entries, in listing order
namelist(entries) == [i \in DOMAIN entries |-> entries[i].name]

\* zfile.read(name): the content of the entry the container keeps under the
\* name, which is the last one of that name in the listing
RECURSIVE zfile_read(_, _, _)
zfile_read(entries, name, i) ==
    IF i = 0 THEN <<>>
    ELSE IF entries[i].name = name THEN entries[i].content
    ELSE zfile_read(entries, name, i - 1)

\* the loop over the names: the content read for the first name that is not
\* under META-INF/ and ends in .xml, None when there is no such name
RECURSIVE scan_names(_, _)
scan_names(entries, i) ==
    IF i > Len(entries) THEN None
    ELSE LET name == namelist(entries)[i]
         IN  IF ~startswith(name, MetaInf) /\ endswith(name, DotXml)
             THEN Some(zfile_read(entries, name, Len(entries)))
             ELSE scan_names(entries, i + 1)

\* lxml.etree.XML(content): the tree of a content that is one element,
\* properly nested, as <<tag, children>>; None when it is not well-formed.
\* stack holds the elements that are open, the innermost last.
RECURSIVE XML_from(_, _, _)
XML_from(content, i, stack) ==
    IF i > Len(content) THEN None
    ELSE LET token == content[i]
             depth == Len(stack)
         IN  IF token.open
             THEN XML_from(content, i + 1,
                           Append(stack, <<token.tag, <<>>>>))
             ELSE IF depth = 0 THEN None
             ELSE IF stack[depth][1] # token.tag THEN None
             ELSE IF depth = 1
             THEN IF i = Len(content) THEN Some(stack[1]) ELSE None
             ELSE XML_from(content, i + 1,
                     [SubSeq(stack, 1, depth - 1) EXCEPT ![depth - 1] =
                         <<@[1], Append(@[2], stack[depth])>>])

XML(content) == XML_from(content, 1, <<>>)

\* element.find(tag): the first child element of that tag, or None
RECURSIVE find_from(_, _, _)
find_from(children, tag, i) ==
    IF i > Len(children) THEN None
    ELSE IF children[i][1] = tag THEN Some(children[i])
    ELSE find_from(children, tag, i + 1)

find(element, tag) == find_from(element[2], tag, 1)

\* element.findall(tag): the child elements of that tag, in document order
RECURSIVE findall_from(_, _, _)
findall_from(children, tag, i) ==
    IF i > Len(children) THEN <<>>
    ELSE (IF children[i][1] = tag THEN <<children[i]>> ELSE <<>>)
         \o findall_from(children, tag, i + 1)

findall(element, tag) == findall_from(element[2], tag, 1)

\* the outcome of _read_musicxml: the exception raised or the tree returned
FormatError == [error |-> Some("FormatError"), doc |-> None]
Returned(doc) == [error |-> None, doc |-> Some(doc)]

_read_musicxml(path) ==
    LET content == IF path.zip THEN scan_names(path.entries, 1)
                   ELSE Some(path.content)
    IN  IF content = None THEN FormatError
        ELSE IF Get(content) = <<>> THEN FormatError
        ELSE LET doc == XML(Get(content))
             IN  IF doc = None THEN FormatError ELSE Returned(Get(doc))

\* self.schema(xmlDoc): whether the bundled schema accepts the tree, which
\* it does for a score-partwise root
schema(doc) == doc[1] = "score-partwise"

----------------------------------------------------------------------------
(* The elements a document is made of. *)

\* the tokens of a file's content: start tags and end tags
StartTag(t) == [open |-> TRUE, tag |-> t]
EndTag(t) == [open |-> FALSE, tag |-> t]

\* contents: nothing, a score whose part has no measure, a score without
\* part, a well-formed document of another kind, an element that is not
\* closed, two elements one after the other
Contents ==
    {<<>>,
     <<StartTag("score-partwise"), StartTag("part"), EndTag("part"),
       EndTag("score-partwise")>>,
     <<StartTag("score-partwise"), EndTag("score-partwise")>>,
     <<StartTag("html"), EndTag("html")>>,
     <<StartTag("score-partwise"), StartTag("part"),
       EndTag("score-partwise")>>,
     <<StartTag("part"), EndTag("part"), StartTag("part"), EndTag("part")>>}

\* entry names: META-INF/c.xml, a.xml, a.txt, a.XML
EntryNames ==
    {MetaInf \o <<"c">> \o DotXml,
     <<"a">> \o DotXml,
     <<"a", ".", "t", "x", "t">>,
     <<"a", ".", "X", "M", "L">>}

Entries == [name : EntryNames, content : Contents]

\* sequences of at most n elements of S
SeqUpTo(S, n) == UNION {[1..k -> S] : k \in 0..n}

\* the files parse is called with: containers, and files that are not
Files ==
    {[zip |-> TRUE, entries |-> es] : es \in SeqUpTo(Entries, MaxEntries)}
    \cup {[zip |-> FALSE, content |-> c] : c \in Contents}

\* the values of a yes-no attribute: absent, "no", "yes", "YES"
YesNo == {None, Some(No), Some(Yes), Some(YES)}

NoPrintAttrs ==
    [newPage |-> None, newSystem |-> None, staffSpacing |-> None,
     systemMargins |-> None, topSystemDistance |-> None,
     systemDistance |-> None, measureDistance |-> None]

SomeMargins == Some([left |-> 2, top |-> 0])
SomeDistance == Some([text |-> 3, children |-> 0])

\* print elements: every combination of the two attributes and the two
\* system distances; with both distances, every combination of the two
\* attributes, system margins and a measure distance; and one with a staff
\* spacing
PrintNodes ==
    {[NoPrintAttrs EXCEPT !.newPage = np, !.newSystem = ns,
                          !.topSystemDistance = tsd, !.systemDistance = sd] :
        np \in YesNo, ns \in YesNo, tsd \in {None, Some(7)},
        sd \in {None, Some(8)}}
    \cup
    {[NoPrintAttrs EXCEPT !.newPage = np, !.newSystem = ns,
                          !.topSystemDistance = Some(7),
                          !.systemDistance = Some(8),
                          !.systemMargins = sm, !.measureDistance = md] :
        np \in YesNo, ns \in YesNo,
        sm \in {None, SomeMargins}, md \in {None, SomeDistance}}
    \cup
    {[NoPrintAttrs EXCEPT !.topSystemDistance = Some(7),
                          !.staffSpacing = Some(9)]}

Heights == {4, 6}

\* measure elements: no print element, one, or two
MeasureNodes ==
    {[prints |-> ps, height |-> h] :
        ps \in {<<>>} \cup {<<p>> : p \in PrintNodes}, h \in Heights}
    \cup
    {[prints |-> <<[NoPrintAttrs EXCEPT !.topSystemDistance = Some(7)],
                  [NoPrintAttrs EXCEPT !.newPage = Some(Yes)]>>,
      height |-> 4]}

\* a few measure elements, for documents whose interest is in the children
FewMeasureNodes ==
    {[prints |-> ps, height |-> 4] :
        ps \in {<<>>,
                <<[NoPrintAttrs EXCEPT !.topSystemDistance = Some(7)]>>,
                <<[NoPrintAttrs EXCEPT !.newPage = Some(Yes),
                                      !.topSystemDistance = Some(7)]>>}}

\* two of them: a print element with a top system distance, and none
TwoMeasureNodes ==
    {[prints |-> ps, height |-> 4] :
        ps \in {<<>>,
                <<[NoPrintAttrs EXCEPT !.topSystemDistance = Some(7)]>>}}

PlainNote ==
    [grace |-> FALSE, cue |-> FALSE, chord |-> FALSE, pitch |-> TRUE,
     rest |-> FALSE, stem |-> TRUE, duration |-> Some(1), beam |-> None]

BeamChild(t, n) == Some([text |-> t, number |-> n])

BeamTypes == {"begin", "continue", "end"}

\* stemmed non-chord notes with a beam child
BeamNotes ==
    {[PlainNote EXCEPT !.beam = BeamChild(t, Some(n))] :
        t \in BeamTypes, n \in 1..MaxNumber}

GraceNote ==
    [PlainNote EXCEPT !.grace = TRUE, !.duration = None,
                      !.beam = BeamChild("continue", Some(1))]
CueNote == [PlainNote EXCEPT !.cue = TRUE, !.beam = BeamChild("end", Some(1))]
ChordNote == [PlainNote EXCEPT !.chord = TRUE,
                               !.beam = BeamChild("end", Some(1))]
RestNote == [PlainNote EXCEPT !.pitch = FALSE, !.rest = TRUE, !.stem = FALSE,
                              !.duration = Some(2)]
HookNote == [PlainNote EXCEPT !.beam = BeamChild("forward hook", Some(1))]
NoDurationNote == [PlainNote EXCEPT !.duration = None]

\* the other notes: no beam child, chord notes, a note without stem, grace
\* and cue notes, a rest, a note that is neither pitched nor a rest, a note
\* without duration, a beam child of another type or without number
OtherNotes ==
    {PlainNote, GraceNote, CueNote, ChordNote, RestNote, HookNote,
     NoDurationNote,
     [PlainNote EXCEPT !.chord = TRUE, !.beam = BeamChild("begin", Some(1))],
     [PlainNote EXCEPT !.stem = FALSE, !.beam = BeamChild("continue", Some(1))],
     [PlainNote EXCEPT !.pitch = FALSE, !.stem = FALSE],
     [PlainNote EXCEPT !.beam = BeamChild("begin", None)]}

\* the notes of the documents whose interest is in the beams
BeamSpecNotes ==
    BeamNotes \cup {GraceNote, HookNote, NoDurationNote}

\* the notes of the documents whose interest is in the notes that stay out
\* of the beams: a stemmed note that begins beam 1, chord notes with a beam
\* child of every type, a note with a beam child and no stem, a chord note
\* without duration
ChordSpecNotes ==
    {[PlainNote EXCEPT !.beam = BeamChild("begin", Some(1))],
     [PlainNote EXCEPT !.chord = TRUE, !.beam = BeamChild("begin", Some(1))],
     [PlainNote EXCEPT !.chord = TRUE,
                       !.beam = BeamChild("continue", Some(2))],
     [PlainNote EXCEPT !.chord = TRUE, !.beam = BeamChild("end", Some(1))],
     [PlainNote EXCEPT !.stem = FALSE,
                       !.beam = BeamChild("continue", Some(1))],
     [PlainNote EXCEPT !.chord = TRUE, !.duration = None,
                       !.beam = BeamChild("end", Some(1))]}

\* the notes of the documents whose interest is in the grace and cue notes:
\* a grace note without duration and a cue note, both with a beam child, a
\* cue note of a chord, and two stemmed notes, one of which begins beam 1
GraceSpecNotes ==
    {GraceNote, CueNote,
     [CueNote EXCEPT !.chord = TRUE, !.duration = None],
     PlainNote,
     [PlainNote EXCEPT !.beam = BeamChild("begin", Some(1))]}

\* a few notes
FewNotes ==
    {PlainNote, RestNote, NoDurationNote,
     [PlainNote EXCEPT !.beam = BeamChild("begin", Some(1))],
     [PlainNote EXCEPT !.beam = BeamChild("end", Some(1))]}

\* the notes of the documents whose interest is in the durations
TimeSpecNotes ==
    {PlainNote, RestNote, [RestNote EXCEPT !.duration = None]}

AttributesNodes ==
    {[divisions |-> d, clef |-> None] :
        d \in {None, Some(1), Some(2), Some(3)}}
    \cup {[divisions |-> None, clef |-> Some("G")]}

FewAttributes == {[divisions |-> Some(1), clef |-> None]}

\* forward and backup elements
DurationNodes == {[duration |-> d] : d \in {None, Some(1), Some(2), Some(3)}}

FewDurations == {[duration |-> Some(1)]}

\* the elements of the documents whose interest is in the value of the
\* durations: divisions of 4 and 8, durations of 4 and 12
QuarterAttributes ==
    {[divisions |-> Some(4), clef |-> None],
     [divisions |-> Some(8), clef |-> None],
     [divisions |-> None, clef |-> Some("G")]}

QuarterNotes ==
    {[PlainNote EXCEPT !.duration = Some(4)],
     [RestNote EXCEPT !.duration = Some(12)],
     [PlainNote EXCEPT !.pitch = FALSE, !.stem = FALSE]}

QuarterDurations == {[duration |-> Some(4)], [duration |-> Some(12)]}

\* child elements without handler
UnhandledTags == {"print"}

----------------------------------------------------------------------------
(* parse *)

Init ==
    /\ pc = "init"
    /\ pages = <<>>
    /\ measures = <<>>
    /\ beams = [n \in 1..MaxNumber |-> None]
    /\ heap = <<>>
    /\ finished = FALSE
    /\ events = <<>>
    /\ last = [op |-> "none"]
    /\ xmlDoc = None

\* parse is called with a file
InitLoad ==
    /\ pc = "start"
    /\ pages = <<>>
    /\ measures = <<>>
    /\ beams = [n \in 1..MaxNumber |-> None]
    /\ heap = <<>>
    /\ finished = FALSE
    /\ events = <<>>
    /\ \E path \in Files : last = [op |-> "call", path |-> path]
    /\ xmlDoc = None

\* xmlDoc = _read_musicxml(path)
ReadMusicXML ==
    /\ pc = "start"
    /\ LET r == _read_musicxml(last.path)
       IN  /\ pc' = IF r.error # None THEN "fault" ELSE "loaded"
           /\ xmlDoc' = r.doc
           /\ last' = [op |-> "read", path |-> last.path,
                       error |-> r.error]
    /\ UNCHANGED <<pages, measures, beams, heap, finished, events>>

\* if not self.schema(xmlDoc): raise ValidateError(...)
Validate ==
    /\ pc = "loaded"
    /\ LET ok == schema(Get(xmlDoc))
       IN  /\ pc' = IF ok THEN "init" ELSE "fault"
           /\ last' = [op |-> "validate",
                       error |-> IF ok THEN None
                                 ELSE Some("ValidateError")]
    /\ UNCHANGED <<pages, measures, beams, heap, finished, events, xmlDoc>>

\* context = ParseContext(); context.sheet = S.Sheet(xmlDoc);
\* context.page = context.sheet.new_page()
Begin ==
    /\ pc = "init"
    /\ pc' = "loop"
    /\ pages' = <<NewPage>>
    /\ beams' = [n \in 1..MaxNumber |-> None]
    /\ last' = [op |-> "begin"]
    /\ UNCHANGED <<measures, heap, finished, events, xmlDoc>>

\* a bug: the attribute is matched in any case
finds_new_page_any_case(node) ==
    \E i \in DOMAIN node.prints :
        Lower(AttribGet(node.prints[i].newPage, No)) = Yes

\* whether measureNode.find('print[@new-page="yes"]') finds an element
finds_new_page(node) ==
    \E i \in DOMAIN node.prints : node.prints[i].newPage = Some(Yes)

\* the pages once the measure is attached: to a new page when the measure
\* has a print element with new-page="yes", to the current one otherwise
attach(ps, node, ix) ==
    LET ps1 == IF finds_new_page(node) THEN Append(ps, NewPage) ELSE ps
    IN  [ps1 EXCEPT ![Len(ps1)].measures = Append(@, ix)]

\* the layout of the new measure: its predecessor's when it has no print
\* element, handle_print's of its first print element otherwise
layout(m, prevM, page, node) ==
    IF node.prints = <<>>
    THEN follow_prev_layout([m EXCEPT !.placed = Append(@, "FOLLOW")], prevM)
    ELSE handle_print(m, prevM, page, node.prints[1])

\* one iteration of the loop over the measures, up to the dispatch of the
\* children
StartMeasure(nodes) ==
    /\ pc = "loop"
    /\ xmlDoc = None
    /\ Len(measures) < MaxMeasures
    /\ \E node \in nodes :
         LET ix == Len(measures) + 1
             prevM == Prev(measures, ix)
             ps == attach(pages, node, ix)
             r == layout(NewMeasure(node, prevM, Len(ps)), prevM,
                         ps[Len(ps)], node)
         IN  /\ pages' = ps
             /\ measures' = Append(measures, r.measure)
             /\ pc' = IF r.fault THEN "fault" ELSE "children"
             /\ last' = [op |-> "measure", node |-> node,
                         pagesBefore |-> Len(pages)]
    /\ UNCHANGED <<beams, heap, finished, events, xmlDoc>>

\* context.measure
Cur == Len(measures)

\* children dispatched so far in the whole part
RECURSIVE Dispatched(_, _)
Dispatched(ms, i) ==
    IF i = 0 THEN 0 ELSE ms[i].dispatched + Dispatched(ms, i - 1)

\* a bug: the loop over the children goes on after a handler raised
CanDispatchAfterFault(max) ==
    /\ pc \in {"children", "fault"}
    /\ Len(measures) >= 1
    /\ Dispatched(measures, Len(measures)) < max

\* a child is dispatched, in a part of at most max child elements
CanDispatch(max) ==
    /\ pc = "children"
    /\ Dispatched(measures, Len(measures)) < max

\* the state after a handler that touches the measure only
Handled(r) ==
    /\ measures' = [measures EXCEPT ![Cur] =
                       [r.measure EXCEPT !.dispatched = @ + 1]]
    /\ pc' = IF r.fault THEN "fault" ELSE "children"

DispatchAttributes(nodes, max) ==
    /\ CanDispatch(max)
    /\ \E node \in nodes :
         /\ Handled(handle_attributes(measures[Cur], node))
         /\ last' = [op |-> "attributes", node |-> node]
    /\ UNCHANGED <<pages, beams, heap, finished, events, xmlDoc>>

DispatchForward(nodes, max) ==
    /\ CanDispatch(max)
    /\ \E node \in nodes :
         /\ Handled(handle_forward(measures[Cur], node))
         /\ last' = [op |-> "forward", node |-> node,
                     before |-> measures[Cur].time,
                     delta |-> forward_delta(measures[Cur], node)]
    /\ UNCHANGED <<pages, beams, heap, finished, events, xmlDoc>>

DispatchBackup(nodes, max) ==
    /\ CanDispatch(max)
    /\ \E node \in nodes :
         /\ Handled(handle_backup(measures[Cur], node))
         /\ last' = [op |-> "backup", node |-> node,
                     before |-> measures[Cur].time,
                     delta |-> backup_delta(measures[Cur], node)]
    /\ UNCHANGED <<pages, beams, heap, finished, events, xmlDoc>>

DispatchBarline(max) ==
    /\ CanDispatch(max)
    /\ Handled(handle_barline(measures[Cur], [tag |-> "barline"]))
    /\ last' = [op |-> "barline"]
    /\ UNCHANGED <<pages, beams, heap, finished, events, xmlDoc>>

\* child.tag not in handlers
DispatchUnhandled(max) ==
    /\ CanDispatch(max)
    /\ \E tag \in UnhandledTags :
         /\ Handled(Ok(measures[Cur]))
         /\ last' = [op |-> "unhandled", tag |-> tag]
    /\ UNCHANGED <<pages, beams, heap, finished, events, xmlDoc>>

\* whether handle_note reaches the beam branch for the node
TakesBeam(node) ==
    /\ ~node.grace /\ ~node.cue /\ node.pitch
    /\ note_stem(node, 0) # None /\ node.beam # None

DispatchNote(nodes, max) ==
    /\ CanDispatch(max)
    /\ \E node \in nodes :
         LET stemId == <<Cur, measures[Cur].dispatched + 1>>
             r == handle_note(measures[Cur], beams, heap, node, stemId)
         IN  /\ Handled(r)
             /\ beams' = r.beams
             /\ heap' = r.heap
             /\ events' = IF TakesBeam(node) /\ ~r.fault
                           THEN Append(events,
                                   [number |-> Get(Get(node.beam).number),
                                    type |-> Get(node.beam).text,
                                    stem |-> stemId, measure |-> Cur])
                           ELSE events
             /\ last' = [op |-> "note", node |-> node, stem |-> stemId]
    /\ UNCHANGED <<pages, finished, xmlDoc>>

\* measure.finish()
FinishMeasure ==
    /\ pc = "children"
    /\ measures' = [measures EXCEPT ![Cur].finished = TRUE]
    /\ pc' = "loop"
    /\ last' = [op |-> "finish"]
    /\ UNCHANGED <<pages, beams, heap, finished, events, xmlDoc>>

\* partNode = xmlDoc.find('part')
partNode == find(Get(xmlDoc), "part")

\* partNode.findall('measure') of a document without part element:
\* partNode is None, which has no findall
NoPart ==
    /\ pc = "loop"
    /\ xmlDoc # None
    /\ partNode = None
    /\ pc' = "fault"
    /\ last' = [op |-> "part", error |-> Some("AttributeError")]
    /\ UNCHANGED <<pages, measures, beams, heap, finished, events, xmlDoc>>

\* the loop over the measures is over: the part of the tree has no measure
\* element left; a document whose elements are drawn ends anywhere
LoopEnds ==
    IF xmlDoc = None THEN TRUE
    ELSE /\ partNode # None
         /\ Len(findall(Get(partNode), "measure")) = Len(measures)

\* a bug: the sheet is finished and returned from inside the loop
FinishSheetEarly ==
    /\ pc \in {"loop", "children"}
    /\ LoopEnds
    /\ finished' = TRUE
    /\ pc' = "returned"
    /\ last' = [op |-> "return"]
    /\ UNCHANGED <<pages, measures, beams, heap, events, xmlDoc>>

\* context.sheet.finish(); return context.sheet
FinishSheet ==
    /\ pc = "loop"
    /\ LoopEnds
    /\ finished' = TRUE
    /\ pc' = "returned"
    /\ last' = [op |-> "return"]
    /\ UNCHANGED <<pages, measures, beams, heap, events, xmlDoc>>

\* whole documents, of a few elements of every kind
Next ==
    \/ Begin
    \/ StartMeasure(FewMeasureNodes)
    \/ DispatchAttributes(FewAttributes, MaxChildren)
    \/ DispatchNote(FewNotes, MaxChildren)
    \/ DispatchForward(FewDurations, MaxChildren)
    \/ DispatchBackup(FewDurations, MaxChildren)
    \/ DispatchBarline(MaxChildren)
    \/ DispatchUnhandled(MaxChildren)
    \/ FinishMeasure
    \/ FinishSheet

Spec == Init /\ [][Next]_vars

\* documents whose measures hold print elements only
NextLayout ==
    \/ Begin
    \/ StartMeasure(MeasureNodes)
    \/ FinishMeasure
    \/ FinishSheet

SpecLayout == Init /\ [][NextLayout]_vars

\* documents of beamed notes
NextBeam ==
    \/ Begin
    \/ StartMeasure(TwoMeasureNodes)
    \/ DispatchAttributes(FewAttributes, MaxBeamChildren)
    \/ DispatchNote(BeamSpecNotes, MaxBeamChildren)
    \/ FinishMeasure
    \/ FinishSheet

SpecBeam == Init /\ [][NextBeam]_vars

\* documents of attributes, forward, backup and unbeamed notes
NextTime ==
    \/ Begin
    \/ StartMeasure(TwoMeasureNodes)
    \/ DispatchAttributes(AttributesNodes, MaxChildren)
    \/ DispatchNote(TimeSpecNotes, MaxChildren)
    \/ DispatchForward(DurationNodes, MaxChildren)
    \/ DispatchBackup(DurationNodes, MaxChildren)
    \/ FinishMeasure
    \/ FinishSheet

SpecTime == Init /\ [][NextTime]_vars

\* parse from the call on, on files whose document has no measure element
NextLoad ==
    \/ ReadMusicXML
    \/ Validate
    \/ Begin
    \/ NoPart
    \/ FinishSheet

SpecLoad == InitLoad /\ [][NextLoad]_vars

\* documents of chord notes and notes without stem
NextChord ==
    \/ Begin
    \/ StartMeasure(TwoMeasureNodes)
    \/ DispatchAttributes(FewAttributes, MaxChildren)
    \/ DispatchNote(ChordSpecNotes, MaxChildren)
    \/ FinishMeasure
    \/ FinishSheet

SpecChord == Init /\ [][NextChord]_vars

\* documents of grace and cue notes
NextGrace ==
    \/ Begin
    \/ StartMeasure(TwoMeasureNodes)
    \/ DispatchAttributes(FewAttributes, MaxChildren)
    \/ DispatchNote(GraceSpecNotes, MaxChildren)
    \/ FinishMeasure
    \/ FinishSheet

SpecGrace == Init /\ [][NextGrace]_vars

\* documents of notes, rests, forward and backup elements of 4 and 12
\* divisions
NextQuarter ==
    \/ Begin
    \/ StartMeasure(TwoMeasureNodes)
    \/ DispatchAttributes(QuarterAttributes, MaxChildren)
    \/ DispatchNote(QuarterNotes, MaxChildren)
    \/ DispatchForward(QuarterDurations, MaxChildren)
    \/ DispatchBackup(QuarterDurations, MaxChildren)
    \/ FinishMeasure
    \/ FinishSheet

SpecQuarter == Init /\ [][NextQuarter]_vars

----------------------------------------------------------------------------
(* Layout: the claims about parse's placement of a measure. *)

\* the state right after a measure was constructed, attached and laid out
Placed == last.op = "measure"
PlacedNode == last.node
HasPrint == PlacedNode.prints # <<>>
FirstPrint == PlacedNode.prints[1]
IsFirst == Cur = 1
Pred == measures[Cur - 1]
ThePage == pages[measures[Cur].page]

\* "yes", whatever the case of its letters
AnyCaseYes(attr) ==
    /\ attr # None
    /\ Len(Get(attr)) = 3
    /\ Get(attr)[1] \in {"y", "Y"}
    /\ Get(attr)[2] \in {"e", "E"}
    /\ Get(attr)[3] \in {"s", "S"}

\* the placement class of section 4.4
Class ==
    IF IsFirst \/ AnyCaseYes(FirstPrint.newPage) THEN "NEW_PAGE"
    ELSE IF AnyCaseYes(FirstPrint.newSystem) THEN "NEW_SYSTEM"
    ELSE "CONTINUE"

\* the left system margin, zero without a system-margins element
SystemLeft ==
    IF FirstPrint.systemMargins = None THEN 0
    ELSE Get(FirstPrint.systemMargins).left

\* C4 as claimed: the first measure is placed as NEW_PAGE, its new-system
\* flag set, with or without a print element; it is never laid out as a copy
\* of a predecessor.
C4_FirstMeasureIsNewPage ==
    Len(measures) >= 1 =>
        /\ measures[1].placed = <<"NEW_PAGE">>
        /\ measures[1].isNewSystem

\* C5 as claimed: a non-first measure without print element has its
\* predecessor's (x, y); one placed as CONTINUE has its predecessor's y, and
\* its predecessor's x plus the measure distance, if there is one.
C5_ContinuationLayout ==
    (Placed /\ ~IsFirst /\ pc # "fault") =>
        /\ ~HasPrint =>
              /\ measures[Cur].x = Pred.x
              /\ measures[Cur].y = Pred.y
        /\ (HasPrint /\ Class = "CONTINUE") =>
              /\ measures[Cur].y = Pred.y
              /\ measures[Cur].x =
                    IF FirstPrint.measureDistance = None THEN Pred.x
                    ELSE Pred.x + Get(FirstPrint.measureDistance).text

\* C6: every measure is laid out once; one with a print element by the
\* placement of its class: NEW_PAGE for the first measure or new-page "yes"
\* in any case, else NEW_SYSTEM for new-system "yes" in any case, else
\* CONTINUE.
C6_OnePlacementClass ==
    /\ \A i \in 1..Len(measures) : Len(measures[i].placed) = 1
    /\ (Placed /\ HasPrint) => measures[Cur].placed = <<Class>>

\* a NEW_PAGE placement that took precedence over new-system="yes", and one
\* chosen by new-page="YES"
C6_Witness ==
    /\ Placed /\ HasPrint /\ ~IsFirst /\ pc # "fault"
    /\ FirstPrint.newPage = Some(YES)
    /\ FirstPrint.newSystem = Some(Yes)
    /\ measures[Cur].placed = <<"NEW_PAGE">>

\* the measures of the pages, in page order
RECURSIVE Concat(_, _)
Concat(ps, n) ==
    IF n = 0 THEN <<>> ELSE Concat(ps, n - 1) \o ps[n].measures

\* C7: the pages hold the measures in document order, each once; a measure
\* goes to a page opened for it iff it has a print element with
\* new-page="yes", to the page that was current otherwise.
C7_PagesPartitionMeasures ==
    /\ pc # "init" =>
          Concat(pages, Len(pages)) = [i \in 1..Len(measures) |-> i]
    /\ Placed =>
          LET opened == \E i \in DOMAIN PlacedNode.prints :
                            PlacedNode.prints[i].newPage = Some(Yes)
          IN  /\ measures[Cur].page = Len(pages)
              /\ Len(pages) = last.pagesBefore + (IF opened THEN 1 ELSE 0)
              /\ opened => pages[Len(pages)].measures = <<Cur>>

\* a returned sheet of two pages, the second opened for the second measure
C7_Witness ==
    /\ pc = "returned"
    /\ Len(pages) = 2
    /\ pages[1].measures = <<1>>
    /\ pages[2].measures = <<2>>

\* C18 as claimed: one page is opened before the first measure and one
\* for every measure with a print element with new-page="yes", no other
\* (none for a first measure placed as NEW_PAGE without that attribute);
\* every page of the sheet returned holds a measure.
C18_PageCount ==
    [][/\ last'.op = "begin" => Len(pages') = 1
       /\ last'.op = "measure" =>
             Len(pages') = Len(pages) +
                (IF \E i \in DOMAIN last'.node.prints :
                        last'.node.prints[i].newPage = Some(Yes)
                 THEN 1 ELSE 0)
       /\ last'.op \notin {"begin", "measure"} => Len(pages') = Len(pages)
       /\ pc' = "returned" =>
             \A p \in DOMAIN pages' : pages'[p].measures # <<>>]_vars

\* C19 as claimed: a measure placed as NEW_SYSTEM or CONTINUE by
\* handle_print, or given its predecessor's layout by parse for want of a
\* print element, has a predecessor.
C19_PredecessorDefined ==
    (/\ Placed
     /\ \E k \in DOMAIN measures[Cur].placed :
           measures[Cur].placed[k] \in {"NEW_SYSTEM", "CONTINUE", "FOLLOW"})
    => Prev(measures, Cur) # None

\* C8: the coordinates of a measure placed as NEW_PAGE or NEW_SYSTEM.
C8_PlacementCoordinates ==
    (Placed /\ HasPrint /\ pc # "fault") =>
        /\ Class = "NEW_PAGE" =>
              /\ measures[Cur].y = ThePage.size[2] - ThePage.margins.top
                    - Get(FirstPrint.topSystemDistance) - measures[Cur].height
              /\ measures[Cur].x = SystemLeft + ThePage.margins.left
              /\ measures[Cur].isNewSystem
        /\ Class = "NEW_SYSTEM" =>
              /\ measures[Cur].y = Pred.y
                    - Get(FirstPrint.systemDistance) - measures[Cur].height
              /\ measures[Cur].x = SystemLeft + ThePage.margins.left
              /\ measures[Cur].isNewSystem

\* a second measure placed as NEW_SYSTEM, of another height than the first,
\* with system margins
C8_Witness ==
    /\ Placed /\ HasPrint /\ pc # "fault" /\ Cur = 2
    /\ Class = "NEW_SYSTEM"
    /\ FirstPrint.systemMargins # None
    /\ measures[2].height # measures[1].height
    /\ measures[2].y = measures[1].y - 8 - measures[2].height

\* C9: a print element without the distance its placement class reads is a
\* fault; without a distance its class does not read, it is none.
C9_RequiredDistance ==
    (Placed /\ HasPrint) =>
        /\ Class = "NEW_PAGE" =>
              (pc = "fault" <=> FirstPrint.topSystemDistance = None)
        /\ Class = "NEW_SYSTEM" =>
              (pc = "fault" <=> FirstPrint.systemDistance = None)
        /\ Class = "CONTINUE" => pc # "fault"

\* a NEW_SYSTEM placement that faulted for want of a system distance, though
\* the print element has a top system distance
C9_Witness ==
    /\ Placed /\ HasPrint /\ ~IsFirst
    /\ Class = "NEW_SYSTEM"
    /\ FirstPrint.systemDistance = None
    /\ FirstPrint.topSystemDistance # None
    /\ pc = "fault"

----------------------------------------------------------------------------
(* Beams: the claims about the beam branch of handle_note. *)

\* a step that dispatches a child of the current measure
DispatchStep ==
    /\ pc = "children"
    /\ Len(measures') = Len(measures)
    /\ measures'[Cur].dispatched = measures[Cur].dispatched + 1

\* the beam child of a note for which handle_note records a stem: a pitched
\* note with a stem element, neither grace nor cue nor part of a chord
Stemmed(node) ==
    /\ node.stem /\ ~node.chord
    /\ node.pitch /\ ~node.grace /\ ~node.cue
BeamOf(node) == Get(node.beam)
HasBeam(node, types) ==
    /\ Stemmed(node)
    /\ node.beam # None
    /\ BeamOf(node).number # None
    /\ BeamOf(node).text \in types

\* the events of beam number n among events i..k
RECURSIVE EventsOf(_, _, _)
EventsOf(n, i, k) ==
    IF i > k THEN <<>>
    ELSE (IF events[i].number = n THEN <<events[i]>> ELSE <<>>)
         \o EventsOf(n, i + 1, k)

\* the last event of number n before event k, or 0
RECURSIVE LastOf(_, _)
LastOf(n, k) ==
    IF k = 0 THEN 0
    ELSE IF events[k].number = n THEN k ELSE LastOf(n, k - 1)

\* the last begin of number n before event k, or 0
RECURSIVE LastBegin(_, _)
LastBegin(n, k) ==
    IF k = 0 THEN 0
    ELSE IF events[k].number = n /\ events[k].type = "begin" THEN k
    ELSE LastBegin(n, k - 1)

\* the state right after a stemmed note with beam "end" was handled
JustEnded ==
    /\ last.op = "note" /\ pc # "fault"
    /\ HasBeam(last.node, {"end"})

\* the run begin, continue*, end of the event just handled, if it is one
EndedRun ==
    LET k == Len(events)
        n == events[k].number
        i == LastBegin(n, k)
    IN  IF i = 0 THEN <<>> ELSE EventsOf(n, i, k)

IsRun(run) ==
    /\ Len(run) >= 2
    /\ \A j \in 2..(Len(run) - 1) : run[j].type = "continue"

\* the beams holding one of the stems, and the places they are attached at
Owners(stems) ==
    {b \in DOMAIN heap : \E q \in DOMAIN heap[b] : heap[b][q] \in stems}
Attached(bs) ==
    {r \in (1..Len(measures)) \X (1..MaxBeamChildren) :
        /\ r[2] <= Len(measures[r[1]].beams)
        /\ measures[r[1]].beams[r[2]] \in bs}

\* C1: after begin, continue*, end of one beam number, one beam holds the
\* stems of these notes, in document order; it is attached once, to the
\* measure of the end.
C1_BeamLifecycle ==
    (JustEnded /\ IsRun(EndedRun)) =>
        LET run == EndedRun
            stems == [j \in 1..Len(run) |-> run[j].stem]
            owners == Owners({run[j].stem : j \in 1..Len(run)})
        IN  /\ Cardinality(owners) = 1
            /\ \A b \in owners : heap[b] = stems
            /\ Cardinality(Attached(owners)) = 1
            /\ \A r \in Attached(owners) : r[1] = Cur

\* a beam begun in the first measure, continued, and ended in the second,
\* with a note of another beam number in between
C1_Witness ==
    /\ JustEnded /\ IsRun(EndedRun)
    /\ Len(EndedRun) = 3
    /\ EndedRun[1].measure = 1
    /\ Cur = 2
    /\ Len(events) = 4
    /\ events[1].type = "begin"
    /\ events[1].number = events[4].number

\* whether number n had a begin among the events handled
Begun(n) == \E j \in 1..Len(events) :
                events[j].number = n /\ events[j].type = "begin"

\* C2: a stemmed note with beam "continue" or "end" whose number had no
\* begin is a fault; it adds no stem to a beam and no beam to a measure.
C2_UnopenedBeamFaults ==
    [][(/\ DispatchStep
        /\ last'.op = "note"
        /\ HasBeam(last'.node, {"continue", "end"})
        /\ ~Begun(Get(BeamOf(last'.node).number)))
       => /\ pc' = "fault"
          /\ heap' = heap
          /\ beams' = beams
          /\ \A i \in 1..Len(measures) :
                measures'[i].beams = measures[i].beams]_vars

\* an "end" of a number never begun, faulting in a measure whose
\* time-division unit is set, while a beam of another number is open
C2_Witness ==
    /\ last.op = "note" /\ pc = "fault"
    /\ HasBeam(last.node, {"end"})
    /\ ~Begun(Get(BeamOf(last.node).number))
    /\ measures[Cur].timeDivisions # None
    /\ heap # <<>>

\* whether number n is closed: its last event is an end, or it has none
Closed(n) ==
    LET k == LastOf(n, Len(events))
    IN  k = 0 \/ events[k].type = "end"

\* C3 as claimed: "end" releases the number: a later "continue" or "end" of
\* it, without a "begin" in between, is a fault, and a beam attached to a
\* measure takes no more stems.
C3_EndReleasesNumber ==
    [][/\ (/\ DispatchStep
           /\ last'.op = "note"
           /\ HasBeam(last'.node, {"continue", "end"})
           /\ Closed(Get(BeamOf(last'.node).number)))
          => pc' = "fault"
       /\ \A r \in Attached(DOMAIN heap) :
             LET b == measures[r[1]].beams[r[2]]
             IN  heap'[b] = heap[b]]_vars

\* C13 as claimed: a "begin" of a number whose beam is in progress (begun,
\* not ended) is rejected: the step is a fault, and the number keeps its
\* beam and the beam its stems.
C13_NoReopen ==
    [][(/\ DispatchStep
        /\ last'.op = "note"
        /\ HasBeam(last'.node, {"begin"})
        /\ ~Closed(Get(BeamOf(last'.node).number)))
       => /\ pc' = "fault"
          /\ beams' = beams
          /\ heap' = heap]_vars

\* a note with a beam child that is a chord note or has no stem
Stemless(node) ==
    /\ ~node.grace /\ ~node.cue
    /\ node.beam # None
    /\ node.chord \/ ~node.stem

\* the beams registered in the measures
Registered(ms) == [i \in DOMAIN ms |-> ms[i].beams]

\* C14: a chord note, and a note without stem, stays out of the beams
\* whatever its beam child: handling it changes neither the number-to-beam
\* mapping nor a beam's stems nor the beams of a measure, and its beam
\* child is no fault; the note is added to the measure, without stem.
C14_ChordOutsideBeams ==
    [][(DispatchStep /\ last'.op = "note" /\ Stemless(last'.node)) =>
          /\ beams' = beams
          /\ heap' = heap
          /\ Registered(measures') = Registered(measures)
          /\ pc' = "fault" <=> duration(measures[Cur], last'.node) = None
          /\ pc' # "fault" =>
                LET notes == measures'[Cur].notes
                IN  /\ Len(notes) = Len(measures[Cur].notes) + 1
                    /\ SubSeq(notes, 1, Len(notes) - 1) = measures[Cur].notes
                    /\ notes[Len(notes)].stem = None
                    /\ notes[Len(notes)].chord = last'.node.chord]_vars

\* a chord note with beam "end" of number 1 added to the measure while the
\* beam of number 1 is in progress, holding one stem
C14_Witness ==
    /\ last.op = "note" /\ pc = "children"
    /\ last.node.chord /\ BeamOf(last.node).text = "end"
    /\ beams[1] # None
    /\ heap = << <<  <<1, 2>> >> >>
    /\ Len(measures[Cur].notes) = 2
    /\ measures[Cur].beams = <<>>

\* C15: a note with a grace or a cue child is passed over: no fault, no
\* note, the time cursor, the number-to-beam mapping, the beams' stems and
\* everything else of the measure as before, whatever the note holds.
C15_GraceCueNoOp ==
    [][(DispatchStep /\ last'.op = "note"
        /\ (last'.node.grace \/ last'.node.cue)) =>
          /\ pc' = "children"
          /\ measures' = [measures EXCEPT ![Cur].dispatched = @ + 1]
          /\ beams' = beams
          /\ heap' = heap
          /\ pages' = pages /\ finished' = finished]_vars

\* a cue note with beam "end" of a number never begun, passed over in a
\* measure without time-division unit
C15_Witness ==
    /\ last.op = "note" /\ pc = "children"
    /\ last.node.cue /\ ~last.node.chord
    /\ BeamOf(last.node).text = "end"
    /\ ~Begun(Get(BeamOf(last.node).number))
    /\ measures[Cur].timeDivisions = None

\* C20 as claimed: a stemmed note whose beam child is of another type than
\* begin, continue and end is no fault: where its duration can be computed
\* the note is added to the measure, and the number-to-beam mapping, the
\* beams' stems and the beams of the measures stay as they were.
C20_OtherBeamTypes ==
    [][(/\ DispatchStep
        /\ last'.op = "note"
        /\ HasBeam(last'.node, {"forward hook", "backward hook"})
        /\ duration(measures[Cur], last'.node) # None)
       => /\ pc' = "children"
          /\ Len(measures'[Cur].notes) = Len(measures[Cur].notes) + 1
          /\ beams' = beams
          /\ heap' = heap
          /\ Registered(measures') = Registered(measures)]_vars

----------------------------------------------------------------------------
(* Time: the claims about handle_forward and handle_backup. *)

\* whether the rational f is n / divisions / 4
IsQuarters(f, n, divisions) ==
    /\ f[2] > 0
    /\ f[1] * (divisions * 4) = n * f[2]

\* C10: forward passes +n/divisions/4 and backup -n/divisions/4, exactly;
\* neither adds a note; a forward and a backup of the same duration, one
\* after the other in a measure, leave the time cursor where it was.
C10_ForwardBackupInverse ==
    [][/\ (DispatchStep /\ last'.op = "forward" /\ pc' # "fault") =>
             /\ IsQuarters(Get(last'.delta), Get(last'.node.duration),
                            Get(measures[Cur].timeDivisions))
             /\ measures'[Cur].notes = measures[Cur].notes
       /\ (DispatchStep /\ last'.op = "backup" /\ pc' # "fault") =>
             /\ IsQuarters(Get(last'.delta), -Get(last'.node.duration),
                            Get(measures[Cur].timeDivisions))
             /\ measures'[Cur].notes = measures[Cur].notes
       /\ (/\ DispatchStep /\ pc' # "fault"
           /\ \/ last.op = "forward" /\ last'.op = "backup"
              \/ last.op = "backup" /\ last'.op = "forward"
           /\ last'.node.duration = last.node.duration)
          => measures'[Cur].time = last.before]_vars

\* a backup that took the cursor back to the start of the measure, right
\* after a forward of the same duration
C10_Witness ==
    /\ last.op = "backup" /\ pc = "children"
    /\ last.before # Zero
    /\ measures[Cur].time = Zero

\* the element of the step takes a duration: a pitched note or a rest that
\* is neither grace nor cue, a forward, a backup
TakesDuration(l) ==
    \/ l.op \in {"forward", "backup"}
    \/ /\ l.op = "note"
       /\ ~l.node.grace /\ ~l.node.cue
       /\ l.node.pitch \/ l.node.rest

\* the duration the step computed: that of the note it added, the delta it
\* moved the time cursor by
Computed(l, m) ==
    IF l.op = "note" THEN m.notes[Len(m.notes)].duration ELSE Get(l.delta)

\* the duration as divisions counted: the element's, negated for a backup
Counted(l) ==
    IF l.op = "backup" THEN -Get(l.node.duration) ELSE Get(l.node.duration)

\* C17: an element that takes a duration, handled in a measure whose
\* time-division unit is not set, is a fault: no note is added and the time
\* cursor stays; in a measure whose unit is set the duration is the
\* element's duration / divisions / 4, exactly: 1/4 for 4 of 4 divisions,
\* 3/8 for 12 of 8.
C17_DurationNeedsDivisions ==
    [][(DispatchStep /\ TakesDuration(last')) =>
          LET m == measures[Cur]
              div == m.timeDivisions
          IN  /\ div = None =>
                    /\ pc' = "fault"
                    /\ measures'[Cur].notes = m.notes
                    /\ measures'[Cur].time = m.time
              /\ (div # None /\ last'.node.duration # None) =>
                    LET d == Computed(last', measures'[Cur])
                        n == Counted(last')
                    IN  /\ pc' = "children"
                        /\ IsQuarters(d, n, Get(div))
                        /\ (Get(div) = 4 /\ n = 4) => d = <<1, 4>>
                        /\ (Get(div) = 8 /\ n = 12) => d = <<3, 8>>
                        /\ last'.op = "note" =>
                              Len(measures'[Cur].notes) = Len(m.notes) + 1
                        /\ last'.op # "note" =>
                              measures'[Cur].time = FracAdd(m.time, d)]_vars

\* a rest of 12 divisions added as 3/8 in the second measure, whose unit of
\* 8 was set in the first
C17_Witness ==
    /\ last.op = "note" /\ pc = "children"
    /\ Cur = 2 /\ measures[2].dispatched = 1
    /\ measures[2].timeDivisions = Some(8)
    /\ measures[2].notes = <<[kind |-> "rest", duration |-> <<3, 8>>,
                              stem |-> None, chord |-> FALSE]>>

----------------------------------------------------------------------------
(* Faults: the claims about what parse does when a step raises. *)

\* whether the step's handler raised, computed from the element handled
\* and the state the handler started from
StepRaised ==
    IF last'.op = "measure"
    THEN LET ix == Len(measures) + 1
             prevM == Prev(measures, ix)
             ps == attach(pages, last'.node, ix)
         IN  layout(NewMeasure(last'.node, prevM, Len(ps)), prevM,
                    ps[Len(ps)], last'.node).fault
    ELSE IF last'.op = "attributes"
    THEN handle_attributes(measures[Cur], last'.node).fault
    ELSE IF last'.op = "note"
    THEN handle_note(measures[Cur], beams, heap, last'.node,
                     last'.stem).fault
    ELSE IF last'.op = "forward"
    THEN handle_forward(measures[Cur], last'.node).fault
    ELSE IF last'.op = "backup"
    THEN handle_backup(measures[Cur], last'.node).fault
    ELSE FALSE

\* C11: a fault in a step of a measure ends the parse there: the step's
\* fault is parse's outcome, no step follows it (no child, no measure, no
\* finish of the measure or of the sheet), and no sheet is returned.
C11_NoPartialResult ==
    [][/\ pc # "fault"
       /\ StepRaised => pc' = "fault"
       /\ pc' = "fault" => (/\ StepRaised
                            /\ ~finished'
                            /\ ~measures'[Len(measures')].finished)
       /\ pc' = "returned" => (/\ pc = "loop"
                               /\ \A i \in 1..Len(measures) :
                                     measures[i].finished)]_vars

\* a note that raised in the second measure, after a child that did not:
\* the first measure is finished, the second and the sheet are not
C11_Witness ==
    /\ pc = "fault" /\ last.op = "note"
    /\ Cur = 2 /\ measures[2].dispatched = 2
    /\ measures[1].finished /\ ~measures[2].finished
    /\ ~finished

----------------------------------------------------------------------------
(* Loading: the claim about _read_musicxml. *)

\* the entries a container is read from: those whose name ends in .xml and
\* is not under META-INF/
Usable(entries) ==
    {i \in DOMAIN entries :
        /\ ~startswith(entries[i].name, MetaInf)
        /\ endswith(entries[i].name, DotXml)}

\* the content the claim says is read: the first usable entry's, or the
\* file's own
ClaimedContent(path) ==
    IF path.zip
    THEN LET U == Usable(path.entries)
         IN  IF U = {} THEN None
             ELSE Some(path.entries[CHOOSE i \in U :
                                       \A j \in U : i <= j].content)
    ELSE Some(path.content)

\* C12 as claimed: reading fails with FormatError, with no sheet and no
\* page, when there is no content (no usable entry, or an empty one, or an
\* empty file) or the content is not well-formed; otherwise the tree is
\* that of the first usable entry in listing order, or of the file itself.
C12_LoadFormatError ==
    [][(pc = "start" /\ pc' # "start") =>
          LET content == ClaimedContent(last.path)
              bad == \/ content = None
                     \/ Get(content) = <<>>
                     \/ XML(Get(content)) = None
          IN  /\ bad => /\ pc' = "fault"
                        /\ last'.error = Some("FormatError")
                        /\ pages' = <<>> /\ measures' = <<>>
              /\ ~bad => /\ pc' = "loaded"
                         /\ xmlDoc' = XML(Get(content))]_vars

----------------------------------------------------------------------------
(* Order: the claim about the order of parse's steps. *)

\* the measures before the last one are as they were
SameBefore == SubSeq(measures', 1, Len(measures) - 1)
                  = SubSeq(measures, 1, Len(measures) - 1)

AllFinished == \A i \in 1..Len(measures) : measures[i].finished

\* C16: a measure is constructed, attached to a page and laid out when
\* every measure before it is finished; its children are dispatched one by
\* one, to the measure while it is not finished; it is finished once, and
\* no measure is touched after that; the sheet is finished once, when every
\* measure is finished, and returned in the same step, after which nothing
\* happens; a child without handler changes nothing.
C16_ParseOrder ==
    [][/\ pc # "returned"
       /\ Len(measures') \in {Len(measures), Len(measures) + 1}
       /\ Len(measures') = Len(measures) + 1 =>
             LET m == measures'[Len(measures')]
             IN  /\ AllFinished /\ ~finished
                 /\ SubSeq(measures', 1, Len(measures)) = measures
                 /\ ~m.finished /\ m.dispatched = 0
                 /\ Len(m.placed) = 1
                 /\ pages'[m.page].measures[Len(pages'[m.page].measures)]
                       = Len(measures')
       /\ (Len(measures') = Len(measures) /\ measures' # measures) =>
             /\ SameBefore
             /\ ~measures[Cur].finished /\ ~finished
             /\ Len(measures[Cur].placed) = 1
             /\ \/ /\ measures'[Cur].dispatched = measures[Cur].dispatched + 1
                   /\ ~measures'[Cur].finished
                \/ /\ measures'[Cur] = [measures[Cur] EXCEPT !.finished = TRUE]
                   /\ pc' = "loop"
       /\ finished' # finished =>
             /\ finished' /\ AllFinished
             /\ measures' = measures /\ pages' = pages
       /\ finished' <=> pc' = "returned"
       /\ last'.op = "unhandled" =>
             /\ pc' = "children"
             /\ measures' = [measures EXCEPT ![Cur].dispatched = @ + 1]
             /\ beams' = beams /\ heap' = heap /\ pages' = pages]_vars

\* a sheet returned with two measures, the first with an attributes element
\* and a note, the second with one child
C16_Witness ==
    /\ pc = "returned" /\ finished
    /\ Len(measures) = 2
    /\ measures[1].dispatched = 2 /\ Len(measures[1].notes) = 1
    /\ measures[2].dispatched = 1
    /\ AllFinished

====
